---- MODULE Spec2Model ----
(***************************************************************************)
(* The host-side frame driver of website/js/App.js: class Game (run and   *)
(* render) and class Canvas, driving the compiled engine (rust.Game) and  *)
(* reading its frame through a Uint8Array view over wasm.memory.buffer.   *)
(*                                                                         *)
(* One Game object is modelled.  JavaScript runs every callback to its    *)
(* end before the next one starts, so a cycle of run is a chain of         *)
(* actions, one per statement, that no other callback of the Game can      *)
(* interleave with: the only callbacks the code creates are the first     *)
(* game.run() of App's effect and the setTimeout of run itself.            *)
(***************************************************************************)
EXTENDS Integers, Sequences, FiniteSets

VARIABLES
    game,       \* this.game: the engine's state behind rust.Game
    wasm,       \* this.wasm: the identity of the current memory.buffer
    canvas,     \* this.canvas: the Canvas object and what is drawn on it
    pc,         \* the statement of run/render the driver is at
    cycle,      \* how many times run has been entered
    next_move,  \* run's local const next_move
    display,    \* render's local const display (the Uint8Array view)
    cols,       \* render's local const cols
    idx,        \* the index forEach is at
    timers,     \* setTimeout callbacks of run scheduled and not yet run
    log,        \* history: the calls made on the engine and of render
    shown,      \* history: the bytes the last render read, in order
    app         \* the App component: its renders and the Games of its canvas

vars == <<game, wasm, canvas, pc, cycle, next_move, display, cols, idx,
          timers, log, shown, app>>

----------------------------------------------------------------------------
(* Bounds of the model *)

\* the engine returns at most this many moves before the no-move signal
MaxMoves == 2
\* the grid of the engine
GridCols == 2
GridRows == 1
\* display_len() is between cols*rows and cols*rows + MaxExtra
MaxExtra == 3
\* a Canvas called on its own has at most MaxDim columns and rows, and is
\* called at most MaxCalls times
MaxDim == 2
MaxCalls == 1
\* the App component renders at most MaxRenders times
MaxRenders == 2
\* render on its own is given grids of up to WideCols by WideRows cells
WideCols == 4
WideRows == 3

----------------------------------------------------------------------------
(* JavaScript values crossing the engine boundary *)

Undefined == [t |-> "undefined", n |-> 0]
Num(k) == [t |-> "number", n |-> k]

\* the bytes a cell of the frame may hold: the five known kinds and one
\* unknown value
Bytes == {0, 1, 2, 3, 4, 9}

\* the values score() may return
Scores == {0, 42}

\* the frames of a given length: every cell empty but at most one
Frames(len) ==
    {[k \in 1..len |-> IF k = p THEN b ELSE 0] : p \in 1..len, b \in Bytes}

\* no view constructed yet
NoView == [buf |-> 0 - 1, ptr |-> 0, len |-> 0, made |-> 0]

Event(op, val) == [op |-> op, cycle |-> cycle, val |-> val]

----------------------------------------------------------------------------
(* The engine (rust.Game, compiled to wasm) as the driver sees it.  Its   *)
(* rules are outside the host code; it is modelled as any engine that     *)
(* gives n moves and then the no-move signal.                             *)

\* display_len(): the number of bytes of the frame
DisplayLen(g) == Len(g.cells)

\* step(): the move the engine decides, or undefined; it changes nothing.
\* The engine decides from its state alone: here, by the moves so far.
StepResult(g) == IF g.commits < g.n THEN Num(g.commits % 2) ELSE Undefined

\* what one step of the simulation may make of the frame: nothing, or the
\* content of every cell moves on by one cell
Moved(f) == [k \in 1..Len(f) |-> f[((k + Len(f) - 2) % Len(f)) + 1]]
NextFrames(f) == {f, Moved(f)}

\* input(move): one step of the simulation.  The frame and the score
\* change, and the memory may grow: the buffer is replaced by a new one and
\* the frame moves in it.
InputResults(g, w) ==
    {<<[g EXCEPT !.commits = @ + 1, !.cells = f,
                 !.score = s, !.ptr = IF grow THEN 1 - @ ELSE @],
       [w EXCEPT !.buf = IF grow THEN @ + 1 ELSE @]>> :
        f \in NextFrames(g.cells), s \in Scores, grow \in BOOLEAN}

\* the bytes a read of view v at index k (from 0) may give: the cell, when
\* the view still describes the frame; anything, when the buffer it was
\* made from has been replaced or the frame has moved
ViewRead(v, k, g, w) ==
    IF v.buf = w.buf /\ v.ptr = g.ptr /\ k < DisplayLen(g)
    THEN {g.cells[k + 1]}
    ELSE Bytes

----------------------------------------------------------------------------
(* class Canvas *)

\* constructor(can, cols, rows)
NewCanvas(c, r) ==
    [cols |-> c, rows |-> r, cleared |-> FALSE, border |-> FALSE,
     score |-> Undefined, draws |-> <<>>]

\* clear(): clearRect over the whole surface
Clear(cv) ==
    [cv EXCEPT !.cleared = TRUE, !.border = FALSE, !.score = Undefined,
               !.draws = <<>>]

\* drawBorder()
DrawBorder(cv) == [cv EXCEPT !.border = TRUE]

\* drawScore(score)
DrawScore(cv, score) == [cv EXCEPT !.score = Num(score)]

\* if (!color) { color = 'navy' }
ColorOrDefault(color) == IF color = "" THEN "navy" ELSE color

\* bug: the bounds test made strict (col >= cols, row >= rows)
OutOfBoundsStrict(cv, x, y) == x >= cv.cols \/ y >= cv.rows

\* the bounds test of drawBall and drawBlock
OutOfBounds(cv, x, y) == x > cv.cols \/ y > cv.rows

\* drawBall(x, y, color), when it does not throw
DrawBall(cv, x, y, color) ==
    [cv EXCEPT !.draws = Append(@, [shape |-> "ball", x |-> x, y |-> y,
                                    color |-> ColorOrDefault(color)])]

\* drawBlock(x, y, color), when it does not throw
DrawBlock(cv, x, y, color) ==
    [cv EXCEPT !.draws = Append(@, [shape |-> "block", x |-> x, y |-> y,
                                    color |-> ColorOrDefault(color)])]

----------------------------------------------------------------------------
(* Game.render: the callback of display.forEach *)

NoDraw == [shape |-> "none", color |-> ""]

\* bug: the two body kinds told apart by colour
DrawForSplit(byte) ==
    CASE byte = 1 -> [shape |-> "block", color |-> "black"]
      [] byte = 2 -> [shape |-> "block", color |-> "navy"]
      [] byte = 3 -> [shape |-> "block", color |-> "blue"]
      [] byte = 4 -> [shape |-> "ball", color |-> "red"]
      [] OTHER -> NoDraw

\* the draw call render makes for a byte
DrawFor(byte) ==
    CASE byte = 1 -> [shape |-> "block", color |-> "black"]
      [] byte = 2 -> [shape |-> "block", color |-> "navy"]
      [] byte = 3 -> [shape |-> "block", color |-> "navy"]
      [] byte = 4 -> [shape |-> "ball", color |-> "red"]
      [] OTHER -> NoDraw

\* bug: the row taken as the remainder
CellYMod(i, c) == i % c

\* let y = Math.floor(i / cols); let x = i % cols
CellY(i, c) == i \div c
CellX(i, c) == i % c

----------------------------------------------------------------------------
(* Game.run: control flow *)

\* bug: the test left out
HasMoveAlways(m) == TRUE

\* bug: if (next_move), which takes the move 0 for no move
HasMoveTruthy(m) == m.t = "number" /\ m.n # 0

\* next_move !== undefined
HasMove(m) == m # Undefined

\* bug: the move committed before the frame is drawn
AfterSwapped(stmt) ==
    CASE stmt = "test" -> "input"
      [] stmt = "input" -> "render"
      [] stmt = "render" -> "timeout"
      [] stmt = "timeout" -> "yield"

\* bug: the next cycle scheduled before the frame is drawn
AfterScheduleFirst(stmt) ==
    CASE stmt = "test" -> "timeout"
      [] stmt = "timeout" -> "render"
      [] stmt = "render" -> "input"
      [] stmt = "input" -> "yield"

\* the statement that follows a statement of run's if-body
After(stmt) ==
    CASE stmt = "test" -> "render"
      [] stmt = "render" -> "input"
      [] stmt = "input" -> "timeout"
      [] stmt = "timeout" -> "yield"

\* bug: the scheduled callback draws and commits without deciding
TimerEntryRender == "render"

\* the statement a callback made by setTimeout(this.run.bind(this), 3)
\* starts at: the first statement of run
TimerEntry == "step"

\* bug: render catches the error of a draw call and returns normally
UncaughtSwallowed == "input"

\* where control goes when a draw call throws: neither render nor run nor
\* the forEach callback catches, so the callback of the event loop ends
Uncaught == "crashed"

\* bug: a move the driver made up
InputArgConst == Num(0)

\* the argument of this.game.input(...)
InputArg == next_move

----------------------------------------------------------------------------
(* The App component.  Its effect has no dependency list, so React runs   *)
(* it after every render of the component; each run of the effect calls   *)
(* Game.new on the same canvas element and, when the promise resolves,    *)
(* game.run().  The Game the other variables describe is the first one.   *)

\* App has rendered once, its effect has run and the first Game is built
MountedApp ==
    [renders |-> 1,  \* renders of App committed
     pending |-> 0,  \* effects of a render not yet run
     games |-> 1,    \* Game objects made for the canvas
     ready |-> 0,    \* later Games whose then-callback has not run yet
     loops |-> 0]    \* later Games whose run() has been called

\* no callback of the first Game is running: the event loop may run another
Quiet == pc \in {"idle", "yield", "stopped", "crashed"}

----------------------------------------------------------------------------
Init ==
    /\ app = MountedApp
    /\ \E n \in 0..MaxMoves, x \in 0..MaxExtra, s \in Scores :
         \E f \in Frames(GridCols * GridRows + x) :
            game = [cols |-> GridCols, rows |-> GridRows, n |-> n,
                    commits |-> 0, cells |-> f, score |-> s,
                    ptr |-> 0]
    /\ wasm = [buf |-> 0]
    /\ canvas = NewCanvas(GridCols, GridRows)
    /\ pc = "idle"
    /\ cycle = 0
    /\ next_move = Undefined
    /\ display = NoView
    /\ cols = 0
    /\ idx = 0
    /\ timers = 0
    /\ log = <<>>
    /\ shown = <<>>

\* Game.new(can).then(game => { game.run() })
Mount ==
    /\ pc = "idle"
    /\ pc' = "step"
    /\ cycle' = cycle + 1
    /\ UNCHANGED <<app, game, wasm, canvas, next_move, display, cols, idx, timers,
                   log, shown>>

\* the event loop runs a scheduled callback of run
TimerFire ==
    /\ pc = "yield"
    /\ timers > 0
    /\ timers' = timers - 1
    /\ pc' = TimerEntry
    /\ cycle' = cycle + 1
    /\ UNCHANGED <<app, game, wasm, canvas, next_move, display, cols, idx, log,
                   shown>>

\* const next_move = this.game.step()
RunStep ==
    /\ pc = "step"
    /\ next_move' = StepResult(game)
    /\ log' = Append(log, Event("step", StepResult(game)))
    /\ pc' = "test"
    /\ UNCHANGED <<app, game, wasm, canvas, cycle, display, cols, idx, timers,
                   shown>>

\* bug: the next cycle scheduled outside the if
RunTestReschedule ==
    /\ pc = "test"
    /\ pc' = IF HasMove(next_move) THEN After("test") ELSE "timeout"
    /\ UNCHANGED <<app, game, wasm, canvas, cycle, next_move, display, cols, idx,
                   timers, log, shown>>

\* if (next_move !== undefined) { ... }, and the return when it is not
RunTest ==
    /\ pc = "test"
    /\ pc' = IF HasMove(next_move) THEN After("test") ELSE "stopped"
    /\ UNCHANGED <<app, game, wasm, canvas, cycle, next_move, display, cols, idx,
                   timers, log, shown>>

\* this.render(): the call
RunRender ==
    /\ pc = "render"
    /\ pc' = "clear"
    /\ log' = Append(log, Event("render", Undefined))
    /\ shown' = <<>>
    /\ UNCHANGED <<app, game, wasm, canvas, cycle, next_move, display, cols, idx,
                   timers>>

\* this.canvas.clear()
RenderClear ==
    /\ pc = "clear"
    /\ canvas' = Clear(canvas)
    /\ pc' = "border"
    /\ UNCHANGED <<app, game, wasm, cycle, next_move, display, cols, idx, timers,
                   log, shown>>

\* this.canvas.drawBorder()
RenderBorder ==
    /\ pc = "border"
    /\ canvas' = DrawBorder(canvas)
    /\ pc' = "score"
    /\ UNCHANGED <<app, game, wasm, cycle, next_move, display, cols, idx, timers,
                   log, shown>>

\* bug: the wrong accessor of the engine passed to drawScore
RenderScoreCols ==
    /\ pc = "score"
    /\ canvas' = DrawScore(canvas, game.cols)
    /\ pc' = "view"
    /\ UNCHANGED <<app, game, wasm, cycle, next_move, display, cols, idx, timers,
                   log, shown>>

\* this.canvas.drawScore(this.game.score())
RenderScore ==
    /\ pc = "score"
    /\ canvas' = DrawScore(canvas, game.score)
    /\ pc' = "view"
    /\ UNCHANGED <<app, game, wasm, cycle, next_move, display, cols, idx, timers,
                   log, shown>>

\* const display = new Uint8Array(this.wasm.memory.buffer,
\*                                this.game.display(), this.game.display_len())
NewView ==
    [buf |-> wasm.buf, ptr |-> game.ptr, len |-> DisplayLen(game),
     made |-> cycle]

\* bug: the view made once and kept
RenderViewCached ==
    /\ pc = "view"
    /\ display' = IF display = NoView THEN NewView ELSE display
    /\ pc' = "cols"
    /\ UNCHANGED <<app, game, wasm, canvas, cycle, next_move, cols, idx, timers,
                   log, shown>>

RenderView ==
    /\ pc = "view"
    /\ display' = NewView
    /\ pc' = "cols"
    /\ UNCHANGED <<app, game, wasm, canvas, cycle, next_move, cols, idx, timers,
                   log, shown>>

\* bug: the frame wiped through the view before it is read
RenderColsWrite ==
    /\ pc = "cols"
    /\ cols' = game.cols
    /\ idx' = 0
    /\ pc' = "each"
    /\ game' = [game EXCEPT !.cells = [k \in 1..Len(@) |-> 0]]
    /\ UNCHANGED <<app, wasm, canvas, cycle, next_move, display, timers, log,
                   shown>>

\* const cols = this.game.cols(), and the start of display.forEach
RenderCols ==
    /\ pc = "cols"
    /\ cols' = game.cols
    /\ idx' = 0
    /\ pc' = "each"
    /\ UNCHANGED <<app, game, wasm, canvas, cycle, next_move, display, timers, log,
                   shown>>

\* one call of the forEach callback: (byte, i) => { ... }
RenderEach ==
    /\ pc = "each"
    /\ idx < display.len
    /\ \E byte \in ViewRead(display, idx, game, wasm) :
         LET y == CellY(idx, cols)
             x == CellX(idx, cols)
             d == DrawFor(byte)
         IN /\ shown' = Append(shown, byte)
            /\ IF d = NoDraw
               THEN /\ idx' = idx + 1
                    /\ UNCHANGED <<canvas, pc, log>>
               ELSE IF OutOfBounds(canvas, x, y)
               THEN /\ pc' = Uncaught
                    /\ log' = Append(log, Event("throw", Undefined))
                    /\ UNCHANGED <<canvas, idx>>
               ELSE /\ canvas' = IF d.shape = "ball"
                                 THEN DrawBall(canvas, x, y, d.color)
                                 ELSE DrawBlock(canvas, x, y, d.color)
                    /\ idx' = idx + 1
                    /\ UNCHANGED <<pc, log>>
    /\ UNCHANGED <<app, game, wasm, cycle, next_move, display, cols, timers>>

\* forEach has visited every index: render returns
RenderReturn ==
    /\ pc = "each"
    /\ idx = display.len
    /\ pc' = After("render")
    /\ UNCHANGED <<app, game, wasm, canvas, cycle, next_move, display, cols, idx,
                   timers, log, shown>>

\* this.game.input(next_move)
RunInput ==
    /\ pc = "input"
    /\ \E r \in InputResults(game, wasm) :
         /\ game' = r[1]
         /\ wasm' = r[2]
    /\ log' = Append(log, Event("input", InputArg))
    /\ pc' = After("input")
    /\ UNCHANGED <<app, canvas, cycle, next_move, display, cols, idx, timers,
                   shown>>

\* bug: the next cycle never scheduled
RunSetTimeoutForgotten ==
    /\ pc = "timeout"
    /\ pc' = After("timeout")
    /\ next_move' = Undefined
    /\ UNCHANGED <<app, game, wasm, canvas, cycle, display, cols, idx, timers, log,
                   shown>>

\* setTimeout(this.run.bind(this), 3), and the return of run
RunSetTimeout ==
    /\ pc = "timeout"
    /\ timers' = timers + 1
    /\ pc' = After("timeout")
    /\ next_move' = Undefined
    /\ UNCHANGED <<app, game, wasm, canvas, cycle, display, cols, idx, log, shown>>

Next ==
    \/ Mount
    \/ TimerFire
    \/ RunStep
    \/ RunTest
    \/ RunRender
    \/ RenderClear
    \/ RenderBorder
    \/ RenderScore
    \/ RenderView
    \/ RenderCols
    \/ RenderEach
    \/ RenderReturn
    \/ RunInput
    \/ RunSetTimeout

Spec == Init /\ [][Next]_vars

\* App renders again (its parent rendered, or its props changed)
AppRender ==
    /\ Quiet
    /\ app.renders < MaxRenders
    /\ app' = [app EXCEPT !.renders = @ + 1, !.pending = @ + 1]
    /\ UNCHANGED <<game, wasm, canvas, pc, cycle, next_move, display, cols,
                   idx, timers, log, shown>>

\* React.useEffect(() => { Game.new(can)... }): the effect of a render
AppEffect ==
    /\ Quiet
    /\ app.pending > 0
    /\ app' = [app EXCEPT !.pending = @ - 1, !.games = @ + 1,
                          !.ready = @ + 1]
    /\ UNCHANGED <<game, wasm, canvas, pc, cycle, next_move, display, cols,
                   idx, timers, log, shown>>

\* .then(game => { game.run() }) of a later Game
AppThen ==
    /\ Quiet
    /\ app.ready > 0
    /\ app' = [app EXCEPT !.ready = @ - 1, !.loops = @ + 1]
    /\ UNCHANGED <<game, wasm, canvas, pc, cycle, next_move, display, cols,
                   idx, timers, log, shown>>

NextApp ==
    \/ Next
    \/ AppRender
    \/ AppEffect
    \/ AppThen

AppSpec == Init /\ [][NextApp]_vars

\* the event loop runs every statement of a callback it has started, and
\* every callback setTimeout has scheduled
FairSpec == Init /\ [][Next]_vars /\ WF_vars(Next)

----------------------------------------------------------------------------
(* class Canvas called on its own: drawBlock and drawBall at any cell, on  *)
(* and past the edge of the grid, by a caller that catches what they throw *)

\* the colour argument; "" is a colour left out
Colors == {"", "black", "navy", "red"}

\* the coordinates tried: the grid, its edge and one past it
Coords(cv) == 0..(MaxDim + 1)

DrawCall(op, x, y) ==
    [op |-> op, cycle |-> cycle, val |-> Undefined, x |-> x, y |-> y]

DrawCalls == {i \in 1..Len(log) : log[i].op \in {"drawBlock", "drawBall"}}

InitCanvas ==
    /\ app = MountedApp
    /\ \E c \in 1..MaxDim, r \in 1..MaxDim :
         /\ canvas = NewCanvas(c, r)
         /\ game = [cols |-> c, rows |-> r, n |-> 0, commits |-> 0,
                    cells |-> [k \in 1..(c * r) |-> 0], score |-> 0,
                    ptr |-> 0]
    /\ wasm = [buf |-> 0]
    /\ pc = "canvas"
    /\ cycle = 0
    /\ next_move = Undefined
    /\ display = NoView
    /\ cols = 0
    /\ idx = 0
    /\ timers = 0
    /\ log = <<>>
    /\ shown = <<>>

\* canvas.drawBlock(x, y, color)
CallDrawBlock ==
    /\ pc = "canvas"
    /\ Cardinality(DrawCalls) < MaxCalls
    /\ \E x \in Coords(canvas), y \in Coords(canvas), color \in Colors :
         IF OutOfBounds(canvas, x, y)
         THEN /\ log' = log \o <<DrawCall("drawBlock", x, y),
                                  DrawCall("throw", x, y)>>
              /\ UNCHANGED canvas
         ELSE /\ log' = Append(log, DrawCall("drawBlock", x, y))
              /\ canvas' = DrawBlock(canvas, x, y, color)
    /\ UNCHANGED <<app, game, wasm, pc, cycle, next_move, display, cols, idx,
                   timers, shown>>

\* canvas.drawBall(x, y, color)
CallDrawBall ==
    /\ pc = "canvas"
    /\ Cardinality(DrawCalls) < MaxCalls
    /\ \E x \in Coords(canvas), y \in Coords(canvas), color \in Colors :
         IF OutOfBounds(canvas, x, y)
         THEN /\ log' = log \o <<DrawCall("drawBall", x, y),
                                  DrawCall("throw", x, y)>>
              /\ UNCHANGED canvas
         ELSE /\ log' = Append(log, DrawCall("drawBall", x, y))
              /\ canvas' = DrawBall(canvas, x, y, color)
    /\ UNCHANGED <<app, game, wasm, pc, cycle, next_move, display, cols, idx,
                   timers, shown>>

NextCanvas == CallDrawBlock \/ CallDrawBall

CanvasSpec == InitCanvas /\ [][NextCanvas]_vars

----------------------------------------------------------------------------
(* Game.render on its own: one call of render, in the first cycle of a    *)
(* run, over grids of every size up to WideCols by WideRows and frames    *)
(* that end with the grid or run up to one byte past the row after it     *)

InitRender ==
    /\ app = MountedApp
    /\ \E c \in 1..WideCols, r \in 1..WideRows, s \in Scores :
         \E x \in 0..(c + 1) :
            \E f \in Frames(c * r + x) :
               /\ game = [cols |-> c, rows |-> r, n |-> 1, commits |-> 0,
                          cells |-> f, score |-> s, ptr |-> 0]
               /\ canvas = NewCanvas(c, r)
    /\ wasm = [buf |-> 0]
    /\ pc = "render"
    /\ cycle = 1
    /\ next_move = Num(0)
    /\ display = NoView
    /\ cols = 0
    /\ idx = 0
    /\ timers = 0
    /\ log = <<[op |-> "step", cycle |-> 1, val |-> Num(0)]>>
    /\ shown = <<>>

NextRender ==
    \/ RunRender
    \/ RenderClear
    \/ RenderBorder
    \/ RenderScore
    \/ RenderView
    \/ RenderCols
    \/ RenderEach
    \/ RenderReturn

RenderSpec == InitRender /\ [][NextRender]_vars

----------------------------------------------------------------------------
(* The calls of a run, read from the history *)

Calls == {"step", "render", "input"}

\* the calls made in cycle k, in order
CallsOf(k) ==
    LET ev == SelectSeq(log, LAMBDA e : e.cycle = k /\ e.op \in Calls)
    IN [i \in 1..Len(ev) |-> ev[i].op]

IsPrefix(s, t) == Len(s) <= Len(t) /\ \A i \in 1..Len(s) : s[i] = t[i]

\* how many times op has been called
Count(op) == Cardinality({i \in 1..Len(log) : log[i].op = op})

\* a draw call has thrown
Thrown == \E i \in 1..Len(log) : log[i].op = "throw"

\* step() has returned the no-move signal
NoMoveSeen == \E i \in 1..Len(log) : log[i].op = "step" /\ log[i].val = Undefined

----------------------------------------------------------------------------
\* C1: in every cycle of run the calls are step, then render, then input,
\* each at most once, and no call of another cycle falls between the step
\* and the input of a cycle.
C1_CycleOrder ==
    /\ \A k \in 1..cycle : IsPrefix(CallsOf(k), <<"step", "render", "input">>)
    /\ \A i, j \in 1..Len(log) :
         (i < j /\ log[i].cycle = log[j].cycle
            /\ log[i].op = "step" /\ log[j].op = "input")
         => \A m \in i..j : log[m].cycle = log[i].cycle

C1_Witness ==
    /\ cycle >= 2
    /\ CallsOf(1) = <<"step", "render", "input">>
    /\ CallsOf(2) = <<"step", "render", "input">>

\* C2: in a cycle where step() returns undefined, run calls neither render
\* nor input.
C2_NoMoveNoRenderNoInput ==
    \A i \in 1..Len(log) :
        (log[i].op = "step" /\ log[i].val = Undefined)
        => \A j \in 1..Len(log) :
              log[j].cycle = log[i].cycle => log[j].op \notin {"render", "input"}

C2_Witness ==
    /\ pc = "stopped"
    /\ cycle = 2
    /\ log[Len(log)] = [op |-> "step", cycle |-> 2, val |-> Undefined]

\* C3: between any two render calls there is a step call, and between any
\* two input calls there is a step call.
C3_StepBetween ==
    \A i, j \in 1..Len(log) :
        (i < j /\ log[i].op = log[j].op /\ log[i].op \in {"render", "input"})
        => \E m \in (i + 1)..(j - 1) : log[m].op = "step"

C3_Witness == Count("render") >= 2 /\ Count("input") >= 2

\* C4: whenever render reads the frame, it reads through the view made in
\* this same call of render from the current buffer, display() and
\* display_len(); no input call has been made since the view was made, and
\* every byte read so far is the byte of the engine's cell.
C4_FreshView ==
    pc = "each" =>
        /\ display = NewView
        /\ \A i \in 1..Len(log) :
             log[i].op = "input" => log[i].cycle < display.made
        /\ \A k \in 1..Len(shown) : shown[k] = game.cells[k]

C4_Witness ==
    /\ pc = "each"
    /\ cycle >= 2
    /\ wasm.buf > 0
    /\ idx > 0

\* C5: the frame drawn in cycle k is the cell array after k-1 committed
\* moves: all of render runs with k-1 moves committed, and when input of
\* the cycle is about to be called render is over and what it read is the
\* whole cell array as it still is, before the move of the cycle.
C5_PreMoveFrame ==
    /\ pc \in {"clear", "border", "score", "view", "cols", "each", "input"}
         => game.commits = cycle - 1
    /\ pc = "input" => shown = game.cells
    /\ pc \in {"timeout", "yield"} => game.commits = cycle

C5_Witness ==
    /\ pc = "input"
    /\ cycle = 2
    /\ game.commits = 1
    /\ shown = game.cells
    /\ canvas.draws # <<>>

\* C6: once step() has returned undefined, that call is the last call the
\* Game ever makes, and no cycle is scheduled.
C6_StoppedTerminal ==
    NoMoveSeen =>
        /\ log[Len(log)].op = "step"
        /\ log[Len(log)].val = Undefined
        /\ timers = 0
        /\ pc \in {"test", "stopped"}

C6_Witness == pc = "stopped" /\ NoMoveSeen /\ Count("input") >= 1

\* C7: if render throws in a cycle, input is not called in that cycle and no
\* next cycle is scheduled: the decided move stays uncommitted.
C7_ThrowNoInput ==
    \A i \in 1..Len(log) :
        log[i].op = "throw" =>
            /\ \A j \in 1..Len(log) :
                 log[j].op = "input" => log[j].cycle < log[i].cycle
            /\ timers = 0
            /\ game.commits = log[i].cycle - 1
            /\ HasMove(next_move)

C7_Witness == Thrown /\ cycle = 2 /\ timers = 0 /\ Count("input") = 1

\* C8, as claimed: after a draw call has thrown the driver still goes on:
\* it is inside a cycle or has a cycle scheduled.
C8_Original ==
    Thrown => (timers > 0 \/ pc \notin {"crashed", "stopped"})

\* C8, amended: an out-of-bounds error of drawBlock or drawBall ends the
\* draw call, render, and the driver: after it nothing changes any more; no
\* later cell is drawn and no later cycle runs.
C8_ThrowHaltsDriver == [][Thrown => UNCHANGED vars]_vars

C8_Witness == Thrown /\ pc = "crashed" /\ game.commits + 1 < game.n

\* C9: when the driver of an engine that gives n moves has stopped, it has
\* called step n+1 times, render n times and input n times; a frame of
\* exactly cols*rows bytes never stops it earlier; and for cols=2, rows=1,
\* bytes [0,4], n=1 the one frame drawn has nothing at (0,0) and a ball at
\* (1,0).
C9_Counts ==
    /\ pc = "stopped" =>
         /\ Count("step") = game.n + 1
         /\ Count("render") = game.n
         /\ Count("input") = game.n
    /\ DisplayLen(game) = game.cols * game.rows => pc # "crashed"
    /\ (pc = "stopped" /\ game.n = 1 /\ game.cols = 2 /\ game.rows = 1
          /\ shown = <<0, 4>>)
         => canvas.draws =
              <<[shape |-> "ball", x |-> 1, y |-> 0, color |-> "red"]>>

C9_Witness ==
    /\ pc = "stopped"
    /\ game.n = 1
    /\ game.cols = 2
    /\ game.rows = 1
    /\ shown = <<0, 4>>
    /\ Count("render") = 1

\* C10: every input call gets the value the step call of the same cycle
\* returned.
C10_InputIsDecidedMove ==
    \A j \in 1..Len(log) :
        log[j].op = "input" =>
            /\ log[j].val # Undefined
            /\ \E i \in 1..(j - 1) :
                 /\ log[i].op = "step"
                 /\ log[i].cycle = log[j].cycle
                 /\ log[i].val = log[j].val

C10_Witness ==
    \E j \in 1..Len(log) :
        log[j] = [op |-> "input", cycle |-> 2, val |-> Num(1)]


\* C11: with every scheduled cycle run, the driver of an engine whose frame
\* has exactly cols*rows bytes reaches Stopped; it is stopped only when the
\* engine has no move left, and a run that returns after a move always
\* leaves a cycle scheduled.
C11_StopsWhenEngineDoes ==
    /\ (DisplayLen(game) = game.cols * game.rows) ~> (pc = "stopped")
    /\ [](pc = "stopped" => game.commits = game.n)
    /\ [](pc = "yield" => timers > 0)

C11_Witness ==
    /\ pc = "stopped"
    /\ game.n = MaxMoves
    /\ game.commits = MaxMoves
    /\ DisplayLen(game) = game.cols * game.rows


\* C12: drawBlock and drawBall do not throw for col <= cols and row <= rows,
\* the values col = cols and row = rows included, and draw the cell; for
\* col > cols or row > rows they throw and draw nothing.
C12_BoundsOfDraw ==
    /\ \A i \in DrawCalls :
         LET threw == i < Len(log) /\ log[i + 1].op = "throw"
         IN /\ (log[i].x <= canvas.cols /\ log[i].y <= canvas.rows) => ~threw
            /\ (log[i].x > canvas.cols \/ log[i].y > canvas.rows) => threw
    /\ Len(canvas.draws) = Cardinality(DrawCalls) - Count("throw")
    /\ \A k \in 1..Len(canvas.draws) :
         \E i \in DrawCalls :
            /\ log[i].x = canvas.draws[k].x
            /\ log[i].y = canvas.draws[k].y
            /\ log[i].op = (IF canvas.draws[k].shape = "ball"
                            THEN "drawBall" ELSE "drawBlock")

C12_Witness ==
    /\ pc = "canvas"
    /\ \E k \in 1..Len(canvas.draws) :
         /\ canvas.draws[k].x = canvas.cols
         /\ canvas.draws[k].y = canvas.rows


\* the cell kinds render knows
KnownBytes == {0, 1, 2, 3, 4}

\* the indices (from 0) read so far whose byte asks for a draw call
DrawnIndices == {i \in 0..(Len(shown) - 1) : shown[i + 1] \in {1, 2, 3, 4}}

\* C13, as claimed: for every unknown byte render has read, a DecodeError
\* marker for that cell is on record.
C13_DecodeErrorMarker ==
    \A k \in 1..Len(shown) :
        shown[k] \notin KnownBytes =>
            \E i \in 1..Len(log) :
                log[i].op = "decode_error" /\ log[i].cycle = cycle

\* C14: render visits the indices of the view in increasing order, and the
\* cell of index i is (col, row) with row * cols + col = i and
\* 0 <= col < cols; with cols=4 and rows=3, index 5 is (col=1, row=1).
C14_IndexToCell ==
    pc \in {"each", "input", "crashed"} =>
        /\ Len(shown) = (IF pc = "crashed" THEN idx + 1 ELSE idx)
        /\ \A k \in 1..Len(shown) : shown[k] = game.cells[k]
        /\ Len(canvas.draws) =
              Cardinality(DrawnIndices) - (IF pc = "crashed" THEN 1 ELSE 0)
        /\ \A k \in 1..Len(canvas.draws) :
              LET d == canvas.draws[k]
              IN /\ d.x >= 0
                 /\ d.x < game.cols
                 /\ (d.y * game.cols + d.x) \in DrawnIndices
                 /\ \A j \in 1..(k - 1) :
                       canvas.draws[j].y * game.cols + canvas.draws[j].x
                         < d.y * game.cols + d.x
        /\ (game.cols = 4 /\ game.rows = 3 /\ 5 \in DrawnIndices
              /\ Len(shown) > 5)
             => (canvas.draws[1].x = 1 /\ canvas.draws[1].y = 1)

C14_Witness ==
    /\ pc = "input"
    /\ game.cols = 4
    /\ game.rows = 3
    /\ 5 \in DrawnIndices
    /\ canvas.draws # <<>>


\* the index (from 0) of the cell a draw call was made at
IndexOf(d) == d.y * game.cols + d.x

\* C15: for every cell read, render makes no draw call for byte 0, one
\* drawBlock in the obstacle colour for byte 1, one drawBlock in one and the
\* same body colour for byte 2 and for byte 3, and one drawBall in a third
\* colour for byte 4, at the cell's (col, row).
C15_DrawPerKind ==
    pc \in {"each", "input"} =>
        /\ \A i \in 0..(Len(shown) - 1) :
              LET b == shown[i + 1]
                  at == {k \in 1..Len(canvas.draws) :
                            IndexOf(canvas.draws[k]) = i}
              IN /\ b = 0 => at = {}
                 /\ b \in {1, 2, 3, 4} => Cardinality(at) = 1
                 /\ \A k \in at :
                       /\ canvas.draws[k].x = i % game.cols
                       /\ canvas.draws[k].y = i \div game.cols
                       /\ b = 1 => (canvas.draws[k].shape = "block"
                                      /\ canvas.draws[k].color = "black")
                       /\ b \in {2, 3} => (canvas.draws[k].shape = "block"
                                            /\ canvas.draws[k].color = "navy")
                       /\ b = 4 => (canvas.draws[k].shape = "ball"
                                      /\ canvas.draws[k].color = "red")
        /\ \A k \in 1..Len(canvas.draws) :
              IndexOf(canvas.draws[k]) \in 0..(Len(shown) - 1)

C15_Witness ==
    /\ pc = "input"
    /\ \E k \in 1..Len(shown) : shown[k] = 3
    /\ Len(canvas.draws) = 1
    /\ canvas.draws[1].color = "navy"

\* the indices of the frame that hold a byte render draws and lie in a row
\* past the one after the grid
PastIndices ==
    {i \in 0..(DisplayLen(game) - 1) :
        /\ game.cells[i + 1] \in {1, 2, 3, 4}
        /\ i >= game.cols * (game.rows + 1)}

\* C19: with game.cols() equal to the Canvas's cols, render throws exactly
\* when the frame holds a byte of 1..4 at an index >= cols * (rows + 1): a
\* frame of cols*rows bytes never makes it throw, and a byte of 1..4 in the
\* one row past the grid is drawn, at row = rows.
C19_ThrowsIffPastRow ==
    /\ game.cols = canvas.cols
    /\ pc = "crashed" => (PastIndices # {} /\ idx \in PastIndices)
    /\ pc = "each" =>
          (idx <= display.len /\ \A i \in PastIndices : i >= idx)
    /\ pc = "input" => PastIndices = {}
    /\ DisplayLen(game) = game.cols * game.rows => pc # "crashed"
    /\ pc = "input" =>
          \A i \in (game.cols * game.rows)..(DisplayLen(game) - 1) :
              game.cells[i + 1] \in {1, 2, 3, 4} =>
                  \E k \in 1..Len(canvas.draws) :
                      /\ canvas.draws[k].y = canvas.rows
                      /\ canvas.draws[k].x = i - game.cols * game.rows

C19_Witness ==
    /\ pc = "input"
    /\ DisplayLen(game) > game.cols * game.rows
    /\ \E k \in 1..Len(canvas.draws) : canvas.draws[k].y = canvas.rows


\* the statements of render, from its call to its return
RenderPcs == {"render", "clear", "border", "score", "view", "cols", "each"}

\* an input call has been made in the current cycle
InputThisCycle ==
    \E i \in 1..Len(log) : log[i].op = "input" /\ log[i].cycle = cycle

\* C16: every render calls drawScore once, with the value score() returns
\* in that render, before the input of the cycle, after clear and
\* drawBorder and before any cell is drawn; a score of 42 is drawn as 42.
C16_ScoreDrawn ==
    /\ [](pc \in (RenderPcs \cup {"input"}) => ~InputThisCycle)
    /\ [](pc = "score" =>
             (canvas.cleared /\ canvas.border /\ canvas.score = Undefined
                /\ canvas.draws = <<>>))
    /\ [](pc \in {"view", "cols", "each", "input"} =>
             (canvas.cleared /\ canvas.border
                /\ canvas.score = Num(game.score)))
    /\ []((pc = "input" /\ game.score = 42) => canvas.score = Num(42))
    /\ [][(canvas'.score # canvas.score /\ canvas'.score # Undefined) =>
             (pc = "score" /\ canvas.score = Undefined
                /\ canvas.draws = <<>>
                /\ canvas'.score = Num(game.score))]_vars

C16_Witness ==
    /\ pc = "input"
    /\ cycle = 2
    /\ game.score = 42
    /\ canvas.score = Num(42)

\* C17: render only reads: from its call to its return no step changes the
\* engine's state, the frame bytes or the memory.
C17_RenderReadsOnly ==
    [][(pc \in RenderPcs) => (game' = game /\ wasm' = wasm)]_vars

C17_Witness ==
    /\ pc = "input"
    /\ cycle = 1
    /\ shown = game.cells
    /\ \E k \in 1..Len(shown) : shown[k] = 4

\* C18: a cycle that got a move schedules exactly one next cycle, after
\* input has returned; a cycle without a move schedules none; at most one
\* cycle is ever scheduled and not yet run, and run is entered only from
\* the event loop, never from inside a cycle.
C18_OneScheduledCycle ==
    /\ [](timers \in {0, 1})
    /\ [](timers = 1 <=> pc = "yield")
    /\ [][timers' > timers =>
             (timers' = timers + 1 /\ pc = "timeout" /\ pc' = "yield"
                /\ log[Len(log)].op = "input"
                /\ log[Len(log)].cycle = cycle)]_vars
    /\ [][cycle' # cycle =>
             (pc \in {"idle", "yield"} /\ cycle' = cycle + 1)]_vars

C18_Witness == pc = "yield" /\ timers = 1 /\ cycle = 2


\* C20, as claimed: however often App renders, its canvas has one Game and
\* no second run loop is started on it.
C20_OneGamePerCanvas == app.games <= 1 /\ app.loops = 0

====
